---- MODULE Spec2Model ----
(***************************************************************************)
(* Model of the second_brain content ingestor: the pipeline orchestrator   *)
(* (content_ingestor/runner.py), the diagnostics collector                  *)
(* (content_ingestor/diagnostics/collector.py), the five stages and the     *)
(* transcription fallback coordinator.                                      *)
(*                                                                          *)
(* Python values are encoded as follows.  None is the string "None";       *)
(* scalars coming from external collaborators are abstract string tokens;   *)
(* a dict is a function whose DOMAIN is its key set; a list is a sequence;  *)
(* an optional return value is <<>> (nothing returned yet) or <<v>>.        *)
(***************************************************************************)
EXTENDS Integers, Sequences, FiniteSets, TLC

VARIABLES
    collector,      \* DiagnosticsCollector fields (_stage_status, _global_*)
    call,           \* last collector API call: <<>> or <<[op, name, raised]>>
    diag,           \* history: the values the last two build_diagnostics() calls returned since the last add
    fatal,          \* value returned by the last has_fatal_failure(), <<>> if none since the last add
    accepted,       \* history: the results add_stage_result accepted, in submission order
    adds,           \* history: number of add_stage_result calls made by the caller
    pc,             \* position of run_ingestion
    idx,            \* index into STAGES of the stage the for loop is at
    run,            \* run_ingestion locals: url, config, run_id
    content_object, \* the artifact in progress
    invoked,        \* history: the stage functions called, in call order
    raisedIn,       \* history: names of the stages whose call raised
    dupRejected,    \* history: names of the stages whose returned result the collector rejected
    interrupted,    \* history: names of the stages during whose call KeyboardInterrupt arrived
    events,         \* history: the log events the stage loop of run_ingestion emitted
    returned        \* what run_ingestion returned: <<>> or <<artifact>>

vars == <<collector, call, diag, fatal, accepted, adds, pc, idx, run,
          content_object, invoked, raisedIn, dupRejected, interrupted,
          events, returned>>

collectorVars == <<collector, call, diag, fatal, accepted, adds>>
runnerVars == <<pc, idx, run, content_object, invoked, raisedIn, dupRejected,
                interrupted, events, returned>>

None == "None"

----------------------------------------------------------------------------
(* Bounds                                                                  *)

\* total number of strings a generated StageResult carries in its lists
MaxEntries == 1
\* number of StageFailure objects a generated StageResult carries
MaxFailures == 1
\* number of add_stage_result calls an arbitrary caller of the collector makes
MaxAdds == 2

----------------------------------------------------------------------------
(* Generic helpers                                                         *)

Range(s) == {s[i] : i \in DOMAIN s}

NoDuplicates(s) == \A i, j \in DOMAIN s : i # j => s[i] # s[j]

\* the positions of xs that hold the first occurrence of their element
FirstOccurrences(xs) == {i \in DOMAIN xs : \A j \in 1..(i - 1) : xs[j] # xs[i]}

\* xs without the repetitions, each element at its first occurrence
Distinct(xs) ==
    [k \in 1..Cardinality(FirstOccurrences(xs)) |->
        xs[CHOOSE i \in FirstOccurrences(xs) :
              Cardinality({j \in FirstOccurrences(xs) : j <= i}) = k]]

Reverse(xs) == [i \in 1..Len(xs) |-> xs[Len(xs) + 1 - i]]

\* list(set(xs)): the distinct elements in the iteration order of a set of
\* str, which follows the string hashes of the interpreter and not the
\* insertion order; the model lets the order be either of two opposite ones
ListOfSet(xs) == {Distinct(xs), Reverse(Distinct(xs))}

RECURSIVE Concat(_)
\* the concatenation of a sequence of sequences
Concat(ss) == IF ss = <<>> THEN <<>> ELSE Head(ss) \o Concat(Tail(ss))

\* d[k] = v on a dict
Put(d, k, v) == [x \in DOMAIN d \cup {k} |-> IF x = k THEN v ELSE d[x]]

\* d.get(k, default)
Get(d, k, default) == IF k \in DOMAIN d THEN d[k] ELSE default

\* model_dump(exclude_none=True) on a flat model: None-valued fields are dropped
ExcludeNone(d) == [k \in {x \in DOMAIN d : d[x] # None} |-> d[k]]

----------------------------------------------------------------------------
(* schema.py: StageFailure, StageResult                                    *)

FailureTypes == {"input_error", "source_error", "extraction_error",
                 "structure_error", "interpretation_error"}

StageFailure(stage, type, cause, impact, fixes) ==
    [stage |-> stage, type |-> type, cause |-> cause, impact |-> impact,
     suggested_fixes |-> fixes]

StageResult(name, success, warnings, errors, failures, fixes, time) ==
    [stage_name |-> name, success |-> success, warnings |-> warnings,
     errors |-> errors, failures |-> failures, suggested_fixes |-> fixes,
     execution_time_ms |-> time]

\* StageResult.model_dump(exclude_none=True): execution_time_ms is the only
\* Optional field; it is dropped when it is None
DumpStageResult(r) ==
    IF r.execution_time_ms = None
    THEN [k \in DOMAIN r \ {"execution_time_ms"} |-> r[k]]
    ELSE r

----------------------------------------------------------------------------
(* diagnostics/collector.py                                                *)

\* DiagnosticsCollector.__init__
NewCollector ==
    [stage_status |-> <<>>,            \* dict, in insertion order
     global_warnings |-> <<>>,
     global_errors |-> <<>>,
     global_suggested_fixes |-> <<>>]

StoredNames(self) == {self.stage_status[i].stage_name : i \in DOMAIN self.stage_status}

add_stage_result_overwrites(self, result) ==
    [raised |-> FALSE,
     self |-> [stage_status |->
                   IF result.stage_name \in StoredNames(self)
                   THEN [i \in DOMAIN self.stage_status |->
                            IF self.stage_status[i].stage_name = result.stage_name
                            THEN result ELSE self.stage_status[i]]
                   ELSE Append(self.stage_status, result),
               global_warnings |-> self.global_warnings \o result.warnings,
               global_errors |-> self.global_errors \o result.errors,
               global_suggested_fixes |->
                   self.global_suggested_fixes \o result.suggested_fixes
                   \o Concat([i \in DOMAIN result.failures |->
                                 result.failures[i].suggested_fixes])]]

add_stage_result_prepends(self, result) ==
    IF result.stage_name \in StoredNames(self)
    THEN [raised |-> TRUE, self |-> self]
    ELSE [raised |-> FALSE,
          self |-> [stage_status |-> Append(self.stage_status, result),
                    global_warnings |-> result.warnings \o self.global_warnings,
                    global_errors |-> result.errors \o self.global_errors,
                    global_suggested_fixes |->
                        self.global_suggested_fixes \o result.suggested_fixes
                        \o Concat([i \in DOMAIN result.failures |->
                                      result.failures[i].suggested_fixes])]]

add_stage_result_skips_failure_fixes(self, result) ==
    IF result.stage_name \in StoredNames(self)
    THEN [raised |-> TRUE, self |-> self]
    ELSE [raised |-> FALSE,
          self |-> [stage_status |-> Append(self.stage_status, result),
                    global_warnings |-> self.global_warnings \o result.warnings,
                    global_errors |-> self.global_errors \o result.errors,
                    global_suggested_fixes |->
                        self.global_suggested_fixes \o result.suggested_fixes]]

\* DiagnosticsCollector.add_stage_result: the outcome (raised ValueError or
\* not) and the collector afterwards
add_stage_result(self, result) ==
    IF result.stage_name \in StoredNames(self)
    THEN [raised |-> TRUE, self |-> self]
    ELSE [raised |-> FALSE,
          self |-> [stage_status |-> Append(self.stage_status, result),
                    global_warnings |-> self.global_warnings \o result.warnings,
                    global_errors |-> self.global_errors \o result.errors,
                    global_suggested_fixes |->
                        self.global_suggested_fixes \o result.suggested_fixes
                        \o Concat([i \in DOMAIN result.failures |->
                                      result.failures[i].suggested_fixes])]]

has_fatal_failure_all(self) ==
    [ret |-> \A i \in DOMAIN self.stage_status : ~self.stage_status[i].success,
     self |-> self]

\* DiagnosticsCollector.has_fatal_failure: the value returned and the
\* collector afterwards
has_fatal_failure(self) ==
    [ret |-> \E i \in DOMAIN self.stage_status : ~self.stage_status[i].success,
     self |-> self]

\* the dict Diagnostics(...).model_dump(by_alias=False, exclude_none=True) gives
DumpDiagnostics(stage_status, warnings, errors, fixes) ==
    [stage_status |-> [i \in DOMAIN stage_status |-> DumpStageResult(stage_status[i])],
     warnings |-> warnings,
     errors |-> errors,
     suggested_fixes |-> fixes]

build_diagnostics_no_dedupe(self) ==
    {[ret |-> DumpDiagnostics(self.stage_status, self.global_warnings,
                              self.global_errors, self.global_suggested_fixes),
      self |-> self]}

build_diagnostics_dedupes_in_place(self) ==
    {[ret |-> DumpDiagnostics(self.stage_status, self.global_warnings,
                              self.global_errors, p),
      self |-> [self EXCEPT !.global_suggested_fixes = p]] :
        p \in ListOfSet(self.global_suggested_fixes)}

\* DiagnosticsCollector.build_diagnostics: the possible (value returned,
\* collector afterwards) pairs, one per ordering list(set(...)) can produce
build_diagnostics(self) ==
    {[ret |-> DumpDiagnostics(self.stage_status, self.global_warnings,
                              self.global_errors, p),
      self |-> self] : p \in ListOfSet(self.global_suggested_fixes)}

----------------------------------------------------------------------------
(* The collector driven through its public methods by an arbitrary caller  *)

\* texts the generated results carry as warnings, errors and suggested fixes
Texts == {"Review logs", "Retry later"}

\* stage names the generated results carry
SubmittedNames == {"validate_input", "fetch_metadata"}

Lists(n) == UNION {[1..k -> Texts] : k \in 0..n}

FailureLists ==
    UNION {[1..k -> {StageFailure("stage", "source_error", "cause", "impact", f) :
                        f \in Lists(MaxEntries)}] : k \in 0..MaxFailures}

Entries(r) ==
    Len(r.warnings) + Len(r.errors) + Len(r.suggested_fixes)
    + Len(Concat([i \in DOMAIN r.failures |-> r.failures[i].suggested_fixes]))

\* the StageResult values a caller submits
SubmittedResults ==
    {r \in [stage_name : SubmittedNames, success : BOOLEAN,
            warnings : Lists(MaxEntries), errors : Lists(MaxEntries),
            failures : FailureLists, suggested_fixes : Lists(MaxEntries),
            execution_time_ms : {None}] : Entries(r) <= MaxEntries}

InitRunnerIdle ==
    /\ pc = "Idle"
    /\ idx = 0
    /\ run = <<>>
    /\ content_object = <<>>
    /\ invoked = <<>>
    /\ raisedIn = {}
    /\ dupRejected = {}
    /\ interrupted = {}
    /\ events = <<>>
    /\ returned = <<>>

InitCollector ==
    /\ collector = NewCollector
    /\ call = <<>>
    /\ diag = <<>>
    /\ fatal = <<>>
    /\ accepted = <<>>
    /\ adds = 0
    /\ InitRunnerIdle

\* collector.add_stage_result(r)
AddStageResult ==
    /\ adds < MaxAdds
    /\ adds' = adds + 1
    /\ \E r \in SubmittedResults :
        LET out == add_stage_result(collector, r)
        IN  /\ collector' = out.self
            /\ call' = <<[op |-> "add_stage_result", name |-> r.stage_name,
                          raised |-> out.raised]>>
            /\ accepted' = IF out.raised THEN accepted ELSE Append(accepted, r)
            /\ diag' = <<>>
            /\ fatal' = <<>>
            /\ UNCHANGED runnerVars

\* collector.has_fatal_failure()
HasFatalFailure ==
    LET out == has_fatal_failure(collector)
    IN  /\ collector' = out.self
        /\ call' = <<[op |-> "has_fatal_failure", name |-> None, raised |-> FALSE]>>
        /\ fatal' = <<out.ret>>
        /\ UNCHANGED <<diag, accepted, adds>>
        /\ UNCHANGED runnerVars

\* collector.build_diagnostics()
BuildDiagnostics ==
    \E out \in build_diagnostics(collector) :
        /\ collector' = out.self
        /\ call' = <<[op |-> "build_diagnostics", name |-> None, raised |-> FALSE]>>
        /\ diag' = IF Len(diag) = 2 THEN <<diag[2], out.ret>> ELSE Append(diag, out.ret)
        /\ UNCHANGED <<fatal, accepted, adds>>
        /\ UNCHANGED runnerVars

NextCollector == AddStageResult \/ HasFatalFailure \/ BuildDiagnostics

SpecCollector == InitCollector /\ [][NextCollector]_vars

----------------------------------------------------------------------------
(* Strings.  A URL is a string; Tokens gives the pieces the string         *)
(* operations of the code look at (" " stands for surrounding whitespace). *)

URLS ==
    {"https://www.youtube.com/watch?v=ABC123",
     "https://www.youtube.com/watch?v=ABC123&t=10",
     " https://www.youtube.com/watch?v=ABC123 ",
     "https://youtu.be/ABC123",
     "https://www.youtube.com/shorts/ABC123",
     "https://example.com/watch?v=ABC123",
     "not a url",
     " ",
     ""}

Tokens(url) ==
    CASE url = "https://www.youtube.com/watch?v=ABC123" ->
            <<"https://", "www.", "youtube.com", "/", "watch", "?", "v=", "ABC123">>
      [] url = "https://www.youtube.com/watch?v=ABC123&t=10" ->
            <<"https://", "www.", "youtube.com", "/", "watch", "?", "v=", "ABC123", "&", "t=10">>
      [] url = " https://www.youtube.com/watch?v=ABC123 " ->
            <<" ", "https://", "www.", "youtube.com", "/", "watch", "?", "v=", "ABC123", " ">>
      [] url = "https://youtu.be/ABC123" ->
            <<"https://", "youtu.be", "/", "ABC123">>
      [] url = "https://www.youtube.com/shorts/ABC123" ->
            <<"https://", "www.", "youtube.com", "/", "shorts", "/", "ABC123">>
      [] url = "https://example.com/watch?v=ABC123" ->
            <<"https://", "example.com", "/", "watch", "?", "v=", "ABC123">>
      [] url = "not a url" -> <<"not a url">>
      [] url = " " -> <<" ">>
      [] url = "" -> <<>>

\* the string a token sequence spells: one of URLS, or the token itself
Spell(toks) ==
    IF \E u \in URLS : Tokens(u) = toks
    THEN CHOOSE u \in URLS : Tokens(u) = toks
    ELSE IF Len(toks) = 1 THEN toks[1] ELSE "<other>"

RECURSIVE StripTokens(_)
\* str.strip() on the token sequence
StripTokens(toks) ==
    IF toks = <<>> THEN <<>>
    ELSE IF Head(toks) = " " THEN StripTokens(Tail(toks))
    ELSE IF toks[Len(toks)] = " " THEN StripTokens(SubSeq(toks, 1, Len(toks) - 1))
    ELSE toks

\* str.strip()
Strip(url) == Spell(StripTokens(Tokens(url)))

StartsWith(s, p) == Len(p) <= Len(s) /\ SubSeq(s, 1, Len(p)) = p

\* length of the longest prefix of s matched by [^&\n?#]+
RunLen(s) ==
    IF \A i \in DOMAIN s : s[i] \notin {"&", "\n", "?", "#"} THEN Len(s)
    ELSE (CHOOSE i \in DOMAIN s :
             /\ s[i] \in {"&", "\n", "?", "#"}
             /\ \A j \in 1..(i - 1) : s[j] \notin {"&", "\n", "?", "#"}) - 1

\* the hosts and the optional path prefixes of YOUTUBE_REGEX
RegexHosts == {"youtube.com", "youtu.be", "youtube-nocookie.com"}
RegexPrefixes == {<<"watch", "?", "v=">>, <<"embed", "/">>, <<"v", "/">>, <<"shorts", "/">>}

\* group(1) matched at the start of rest, the text after "host/": the prefix
\* alternative is tried first, then the empty prefix; <<>> for no match
RegexGroup(rest) ==
    IF \E p \in RegexPrefixes :
          StartsWith(rest, p) /\ RunLen(SubSeq(rest, Len(p) + 1, Len(rest))) >= 1
    THEN CHOOSE g \in {SubSeq(after, 1, RunLen(after)) :
                          after \in {SubSeq(rest, Len(p) + 1, Len(rest)) :
                                        p \in {q \in RegexPrefixes : StartsWith(rest, q)}}} :
                    g # <<>>
    ELSE SubSeq(rest, 1, RunLen(rest))

\* group(1) of YOUTUBE_REGEX matched right after host token i, <<>> for no
\* match there
RegexGroupAt(toks, i) ==
    IF ~(toks[i] \in RegexHosts /\ i + 1 <= Len(toks) /\ toks[i + 1] = "/")
    THEN <<>>
    ELSE CHOOSE g \in {RegexGroup(rest) : rest \in {SubSeq(toks, i + 2, Len(toks))}} : TRUE

\* the search on the token sequence: the leftmost host position that matches
RegexSearch(toks) ==
    IF \A i \in DOMAIN toks : RegexGroupAt(toks, i) = <<>> THEN <<>>
    ELSE CHOOSE m \in {<<Spell(g)>> :
                          g \in {RegexGroupAt(toks, i) :
                                    i \in {k \in DOMAIN toks :
                                              /\ RegexGroupAt(toks, k) # <<>>
                                              /\ \A j \in 1..(k - 1) :
                                                    RegexGroupAt(toks, j) = <<>>}}} : TRUE

\* YOUTUBE_REGEX.search(url): <<>> for no match, else <<group(1)>>
YOUTUBE_REGEX_search(url) ==
    CHOOSE m \in {RegexSearch(toks) : toks \in {Tokens(url)}} : TRUE

----------------------------------------------------------------------------
(* schema.py: Identity, Source and the artifact                            *)

\* values uuid.uuid4() can return
UUIDS == {"uuid-1", "uuid-2"}

\* Identity().model_dump()
Identity(content_id, workflow_run_id) ==
    [content_id |-> content_id, workflow_run_id |-> workflow_run_id,
     created_at |-> "utcnow", workflow_version |-> "0.1.0"]

\* Source(url=url).model_dump()
Source(url) ==
    [source_type |-> "youtube", url |-> url, video_id |-> None, title |-> None,
     channel_name |-> None, duration_seconds |-> None, published_at |-> None,
     language |-> None, captions_available |-> None]

\* {}
EmptyDict == [k \in {} |-> None]

\* the duration of the stage's work as its timer's end() reports it
TimeMs == "elapsed_ms"

\* what a stage call does: it returns (content_object, StageResult) or it
\* raises; co is the artifact after the in-place writes made until then.
\* trace is the record of the transcribe execution inside the call (<<>> for
\* a stage that makes none)
StageReturns(co, result) ==
    [raised |-> FALSE, exc |-> None, co |-> co, result |-> <<result>>, trace |-> <<>>]
StageRaises(co, exc) ==
    [raised |-> TRUE, exc |-> exc, co |-> co, result |-> <<>>, trace |-> <<>>]

----------------------------------------------------------------------------
(* stages/validate_input.py                                                *)

validate_input_replaces_source(co, config) ==
    LET url == Strip(Get(co.source, "url", ""))
        match == YOUTUBE_REGEX_search(url)
    IN  IF match = <<>>
        THEN {StageReturns([co EXCEPT !.source = EmptyDict],
                 StageResult("validate_input", FALSE, <<>>, <<"No URL provided">>,
                     <<>>, <<>>, TimeMs))}
        ELSE {StageReturns(
                 [co EXCEPT !.source = Put(EmptyDict, "video_id", match[1])],
                 StageResult("validate_input", TRUE, <<>>, <<>>, <<>>, <<>>, TimeMs))}

validate_input_source_error(co, config) ==
    LET url == Strip(Get(co.source, "url", ""))
        match == YOUTUBE_REGEX_search(url)
    IN  IF url = "" \/ match = <<>>
        THEN {StageReturns(co,
                 StageResult("validate_input", FALSE, <<>>, <<"No URL provided">>,
                     <<StageFailure("validate_input", "source_error", "missing_url",
                                    "Cannot proceed without input URL",
                                    <<"Provide a valid YouTube URL via CLI">>)>>,
                     <<>>, TimeMs))}
        ELSE {StageReturns(
                 [co EXCEPT !.source = Put(Put(@, "video_id", match[1]), "url", url)],
                 StageResult("validate_input", TRUE, <<>>, <<>>, <<>>, <<>>, TimeMs))}

validate_input(co, config) ==
    LET url == Strip(Get(co.source, "url", ""))
        match == YOUTUBE_REGEX_search(url)
    IN  IF url = ""
        THEN {StageReturns(co,
                 StageResult("validate_input", FALSE, <<>>, <<"No URL provided">>,
                     <<StageFailure("validate_input", "input_error", "missing_url",
                                    "Cannot proceed without input URL",
                                    <<"Provide a valid YouTube URL via CLI">>)>>,
                     <<>>, TimeMs))}
        ELSE IF match = <<>>
        THEN {StageReturns(co,
                 StageResult("validate_input", FALSE,
                     <<"URL did not match YouTube pattern: <url>">>, <<>>,
                     <<StageFailure("validate_input", "input_error", "invalid_youtube_url",
                                    "Cannot extract video_id; pipeline will produce diagnostics-only artifact",
                                    <<"Ensure URL is from youtube.com or youtu.be",
                                      "Check for typos or extra characters",
                                      "Use standard watch?v= or youtu.be format">>)>>,
                     <<>>, TimeMs))}
        ELSE {StageReturns(
                 [co EXCEPT !.source = Put(Put(@, "video_id", match[1]), "url", url)],
                 StageResult("validate_input", TRUE, <<>>, <<>>, <<>>, <<>>, TimeMs))}

----------------------------------------------------------------------------
(* stages/fetch_metadata.py                                                *)

\* what ydl.extract_info does: it returns an info dict (complete, with
\* every optional key missing, with a fractional duration, or with a
\* timestamp datetime.fromtimestamp rejects), returns nothing, raises a
\* DownloadError (three kinds of message) or raises something else
MetadataOutcomes ==
    {"info_full", "info_sparse", "info_float_duration", "info_bad_timestamp",
     "no_info", "unavailable", "age_restricted", "download_error", "exception"}

\* the info dict of an outcome, as the values the stage reads from it
Info(outcome) ==
    IF outcome = "info_sparse"
    THEN [title |-> None, channel |-> None, duration |-> None, published_at |-> None,
          language |-> None, captions_available |-> "False",
          description |-> None, tags |-> None]
    ELSE [title |-> "TITLE", channel |-> "CHANNEL",
          duration |-> IF outcome = "info_float_duration" THEN "12.5" ELSE "600",
          published_at |-> "DATETIME", language |-> "en", captions_available |-> "True",
          description |-> "DESCRIPTION", tags |-> "TAGS"]

MetadataFailure(cause, impact, fixes) ==
    <<StageFailure("fetch_metadata", "source_error", cause, impact, fixes)>>

fetch_metadata(co, config) ==
    LET video_id == Get(co.source, "video_id", None)
        retry == <<"Check if video is public and not deleted",
                   "Try again later (transient YouTube issue)">>
        limited == "Metadata unavailable; downstream stages will have limited data"
        written3(info) ==
            [co EXCEPT !.source =
                Put(Put(Put(@, "title", info.title), "channel_name", info.channel),
                    "duration_seconds", info.duration)]
        written(info) ==
            [written3(info) EXCEPT
                !.source = Put(Put(Put(@, "published_at", info.published_at),
                                   "language", info.language),
                               "captions_available", info.captions_available),
                !.raw = Put(Put(@, "description_text", info.description),
                            "tags", info.tags)]
        outcome(o) ==
            CASE o \in {"info_full", "info_sparse", "info_float_duration"} ->
                    StageReturns(written(Info(o)),
                        StageResult("fetch_metadata", TRUE, <<>>, <<>>, <<>>, <<>>, TimeMs))
              [] o = "info_bad_timestamp" ->
                    StageReturns(written3(Info(o)),
                        StageResult("fetch_metadata", FALSE, <<>>,
                            <<"Unexpected error: <exception>">>,
                            MetadataFailure("unexpected_error", "Metadata unavailable",
                                <<"Check internet connection", "Update yt-dlp", "Review logs">>),
                            <<>>, TimeMs))
              [] o = "exception" ->
                    StageReturns(co,
                        StageResult("fetch_metadata", FALSE, <<>>,
                            <<"Unexpected error: <exception>">>,
                            MetadataFailure("unexpected_error", "Metadata unavailable",
                                <<"Check internet connection", "Update yt-dlp", "Review logs">>),
                            <<>>, TimeMs))
              [] o = "unavailable" ->
                    StageReturns(co,
                        StageResult("fetch_metadata", FALSE, <<"Metadata fetch failed">>, <<>>,
                            MetadataFailure("video_unavailable", limited, retry),
                            <<>>, TimeMs))
              [] o = "age_restricted" ->
                    StageReturns(co,
                        StageResult("fetch_metadata", FALSE, <<"Metadata fetch failed">>, <<>>,
                            MetadataFailure("age_restricted", limited,
                                Append(retry, "Provide cookies.txt with logged-in session")),
                            <<>>, TimeMs))
              [] o \in {"no_info", "download_error"} ->
                    StageReturns(co,
                        StageResult("fetch_metadata", FALSE, <<"Metadata fetch failed">>, <<>>,
                            MetadataFailure("download_error", limited, retry),
                            <<>>, TimeMs))
    IN  IF video_id = None \/ video_id = ""
        THEN {StageReturns(co,
                 StageResult("fetch_metadata", FALSE, <<>>, <<>>,
                     <<StageFailure("fetch_metadata", "input_error", "missing_video_id",
                                    "Cannot fetch metadata without video_id",
                                    <<"Ensure validate_input stage succeeded">>)>>,
                     <<>>, None))}
        ELSE {outcome(o) : o \in MetadataOutcomes}

----------------------------------------------------------------------------
(* transcription/captions.py, whisper.py, core.py                          *)

TranscriptionResult(success, text, audio_path, method, warnings, errors, fixes) ==
    [success |-> success, transcript_text |-> text, audio_path |-> audio_path,
     method |-> method, warnings |-> warnings, errors |-> errors,
     suggested_fixes |-> fixes]

\* _extract_video_id (captions.py and whisper.py): <<>> when it raises
\* ValueError, else <<url.split("v=")[1].split("&")[0]>>
ExtractVideoId(url) ==
    LET toks == Tokens(url)
        at == {i \in DOMAIN toks : toks[i] = "v="}
    IN  IF at = {} THEN <<>>
        ELSE LET first == CHOOSE i \in at : \A j \in at : i <= j
                 tail == SubSeq(toks, first + 1, Len(toks))
                 ends == {i \in DOMAIN tail : tail[i] \in {"v=", "&"}}
                 stop == IF ends = {} THEN Len(tail)
                         ELSE (CHOOSE i \in ends : \A j \in ends : i <= j) - 1
             IN  <<Spell(SubSeq(tail, 1, stop))>>

\* what YouTubeTranscriptApi.get_transcript does: segments with text (short,
\* or longer than 40000 characters), segments without any text, one of the
\* two not-available errors, another error; "import_error": the package is
\* missing, so the except clause naming its error classes raises itself
CaptionOutcomes ==
    {"text", "long_text", "empty_text", "unavailable", "error", "import_error"}

\* get_captions: the results it can return, <<>> standing for a raise
get_captions(youtube_url) ==
    LET failed(message) ==
            <<TranscriptionResult(FALSE, "", None, None, <<>>,
                                  <<message>>, <<"Retry caption fetch">>)>>
        found(text) ==
            <<TranscriptionResult(TRUE, text, None, "captions", <<>>, <<>>, <<>>)>>
        outcome(o) ==
            CASE o = "import_error" -> <<>>
              [] ExtractVideoId(youtube_url) = <<>> -> failed("Invalid YouTube URL")
              [] o = "text" -> found("TEXT")
              [] o = "long_text" -> found("LONGTEXT")
              [] o = "empty_text" -> found("")
              [] o = "unavailable" ->
                    <<TranscriptionResult(FALSE, "", None, None,
                          <<"YouTube captions unavailable">>, <<>>,
                          <<"Fallback to audio transcription">>)>>
              [] o = "error" -> failed("<caption error>")
    IN  {outcome(o) : o \in CaptionOutcomes}

\* the except branch of transcribe_audio
AudioFailure(message) ==
    TranscriptionResult(FALSE, "", None, None, <<>>, <<message>>,
                        <<"Ensure yt-dlp/whisper installed", "Check ffmpeg">>)

\* one execution of transcribe_audio: the result it returns, whether the
\* audio was acquired, what the model did ("not_called", "text", "empty",
\* "raised"), whether a temporary directory was created and whether that
\* directory is removed by the time the call returns
AudioRun(ret, acquired, model, tmp_created, tmp_released) ==
    [ret |-> ret, acquired |-> acquired, model |-> model,
     tmp_created |-> tmp_created, tmp_released |-> tmp_released]

transcribe_audio_run_accepts_empty(youtube_url, save_dir, do_transcribe) ==
    LET audio_path == IF save_dir # None THEN "<save_dir>/<video_id>.wav" ELSE None
        tmp == save_dir = None
        ok(text) == TranscriptionResult(TRUE, text, audio_path, "whisper",
                        <<"Used audio fallback (slower)">>, <<>>, <<>>)
    IN  {AudioRun(AudioFailure("<download error>"), FALSE, "not_called", tmp, tmp)}
        \cup (IF do_transcribe
              THEN {AudioRun(ok("TEXT"), TRUE, "text", tmp, tmp),
                    AudioRun(ok(""), TRUE, "empty", tmp, tmp)}
              ELSE {AudioRun(ok(""), TRUE, "not_called", tmp, tmp)})

\* transcribe_audio: the executions it can have (the download fails or
\* succeeds; the model returns text, returns only whitespace, or raises).
\* tmpdir.cleanup() is called on the paths that reach line 63; an exception
\* skips it and leaves the directory to the finalizer of the
\* TemporaryDirectory object, which has or has not run when the call returns
transcribe_audio_run(youtube_url, save_dir, do_transcribe) ==
    IF save_dir # None /\ ExtractVideoId(youtube_url) = <<>>
    THEN {AudioRun(AudioFailure("Invalid YouTube URL"), FALSE, "not_called", FALSE, FALSE)}
    ELSE LET audio_path == IF save_dir # None THEN "<save_dir>/<video_id>.wav" ELSE None
             tmp == save_dir = None
             finalized == IF tmp THEN BOOLEAN ELSE {FALSE}
             ok(text) == TranscriptionResult(TRUE, text, audio_path, "whisper",
                             <<"Used audio fallback (slower)">>, <<>>, <<>>)
         IN  {AudioRun(AudioFailure("<download error>"), FALSE, "not_called", tmp, r) :
                 r \in finalized}
             \cup (IF do_transcribe
                   THEN {AudioRun(ok("TEXT"), TRUE, "text", tmp, tmp),
                         AudioRun([ok("") EXCEPT !.success = FALSE,
                                      !.errors = <<"Whisper returned empty transcript">>,
                                      !.suggested_fixes =
                                          <<"Check audio quality", "Try larger model">>],
                                  TRUE, "empty", tmp, tmp)}
                        \cup {AudioRun(AudioFailure("<model error>"), TRUE, "raised", tmp, r) :
                                 r \in finalized}
                   ELSE {AudioRun(ok(""), TRUE, "not_called", tmp, tmp)})

\* transcribe_audio: the results it can return
transcribe_audio(youtube_url, save_dir, do_transcribe) ==
    {r.ret : r \in transcribe_audio_run(youtube_url, save_dir, do_transcribe)}

\* one execution of transcribe: its arguments, what get_captions returned
\* (<<>> when it raised), the execution of transcribe_audio (<<>> when it
\* was not called) and the result returned (<<>> when transcribe raised)
TranscribeRun(youtube_url, config, captions, audio, ret) ==
    [url |-> youtube_url, config |-> config, captions |-> captions,
     audio |-> audio, ret |-> ret]

transcribe_run_audio_first(youtube_url, config) ==
    {TranscribeRun(youtube_url, config, c, <<a>>,
                   IF c # <<>> /\ c[1].success THEN c ELSE <<a.ret>>) :
        c \in get_captions(youtube_url),
        a \in transcribe_audio_run(youtube_url, config.download_audio_dir,
                                   config.transcribe)}

transcribe_run_drops_caption_entries(youtube_url, config) ==
    UNION {IF c = <<>> THEN {TranscribeRun(youtube_url, config, <<>>, <<>>, <<>>)}
           ELSE IF c[1].success THEN {TranscribeRun(youtube_url, config, c, <<>>, c)}
           ELSE {TranscribeRun(youtube_url, config, c, <<a>>, <<a.ret>>) :
                    a \in transcribe_audio_run(youtube_url, config.download_audio_dir,
                                               config.transcribe)} :
           c \in get_captions(youtube_url)}

\* transcribe: the executions it can have
transcribe_run_retries_audio(youtube_url, config) ==
    UNION {IF c = <<>> THEN {TranscribeRun(youtube_url, config, <<>>, <<>>, <<>>)}
           ELSE IF c[1].success THEN {TranscribeRun(youtube_url, config, c, <<>>, c)}
           ELSE {TranscribeRun(youtube_url, config, c,
                    IF a.ret.success THEN <<a>> ELSE <<a, a>>,
                    <<[a.ret EXCEPT !.warnings = @ \o c[1].warnings,
                                    !.errors = @ \o c[1].errors,
                                    !.suggested_fixes = @ \o c[1].suggested_fixes]>>) :
                    a \in transcribe_audio_run(youtube_url, config.download_audio_dir,
                                               config.transcribe)} :
           c \in get_captions(youtube_url)}

transcribe_run(youtube_url, config) ==
    UNION {IF c = <<>> THEN {TranscribeRun(youtube_url, config, <<>>, <<>>, <<>>)}
           ELSE IF c[1].success THEN {TranscribeRun(youtube_url, config, c, <<>>, c)}
           ELSE {TranscribeRun(youtube_url, config, c, <<a>>,
                    <<[a.ret EXCEPT !.warnings = @ \o c[1].warnings,
                                    !.errors = @ \o c[1].errors,
                                    !.suggested_fixes = @ \o c[1].suggested_fixes]>>) :
                    a \in transcribe_audio_run(youtube_url, config.download_audio_dir,
                                               config.transcribe)} :
           c \in get_captions(youtube_url)}

\* transcribe: the results it can return, <<>> standing for a raise
transcribe(youtube_url, config) ==
    {r.ret : r \in transcribe_run(youtube_url, config)}

----------------------------------------------------------------------------
(* stages/fetch_transcript.py                                              *)

\* transcript_confidence (line 45) of a method
Confidence(method) == IF method = "captions" THEN "1.0" ELSE "0.7"

\* the number a confidence stands for, in tenths
ConfidenceTenths(c) == CASE c = "1.0" -> 10 [] c = "0.7" -> 7

TranscriptStage_flat_confidence(co, t) ==
    IF t.ret = <<>> \/ ~t.ret[1].success
    THEN StageReturns(co, StageResult("fetch_transcript", FALSE, <<>>, <<>>, <<>>, <<>>, TimeMs))
    ELSE [StageReturns(
              [co EXCEPT !.raw = Put(Put(@, "transcript_text", t.ret[1].transcript_text),
                                     "transcript_confidence", "0.7")],
              StageResult("fetch_transcript", TRUE, <<>>, <<>>, <<>>, <<>>, TimeMs))
          EXCEPT !.trace = <<t>>]

TranscriptStage_clears_raw_on_failure(co, t) ==
    IF t.ret = <<>>
    THEN [StageReturns([co EXCEPT !.raw = EmptyDict],
              StageResult("fetch_transcript", FALSE, <<>>, <<"<exception>">>,
                  <<StageFailure("fetch_transcript", "extraction_error", "unexpected",
                                 "No transcript", <<"Review logs">>)>>,
                  <<>>, None))
          EXCEPT !.trace = <<t>>]
    ELSE LET result == t.ret[1]
             raw == IF result.success
                    THEN Put(Put(Put(Put(co.raw,
                             "transcript_text", result.transcript_text),
                             "audio_path", result.audio_path),
                             "transcript_language", "en"),
                             "transcript_confidence", Confidence(result.method))
                    ELSE EmptyDict
         IN  [StageReturns([co EXCEPT !.raw = raw],
                  StageResult("fetch_transcript", result.success,
                      result.warnings, result.errors,
                      [i \in DOMAIN result.errors |->
                          StageFailure("fetch_transcript", "extraction_error",
                              result.errors[i], "Transcript limited",
                              result.suggested_fixes)],
                      result.suggested_fixes, TimeMs))
              EXCEPT !.trace = <<t>>]

\* lines 39-82 for one execution t of transcribe
TranscriptStage(co, t) ==
    IF t.ret = <<>>
    THEN [StageReturns(co,
              StageResult("fetch_transcript", FALSE, <<>>, <<"<exception>">>,
                  <<StageFailure("fetch_transcript", "extraction_error", "unexpected",
                                 "No transcript", <<"Review logs">>)>>,
                  <<>>, None))
          EXCEPT !.trace = <<t>>]
    ELSE LET result == t.ret[1]
             raw == IF result.success
                    THEN Put(Put(Put(Put(co.raw,
                             "transcript_text", result.transcript_text),
                             "audio_path", result.audio_path),
                             "transcript_language", "en"),
                             "transcript_confidence", Confidence(result.method))
                    ELSE co.raw
         IN  [StageReturns([co EXCEPT !.raw = raw],
                  StageResult("fetch_transcript", result.success,
                      result.warnings, result.errors,
                      [i \in DOMAIN result.errors |->
                          StageFailure("fetch_transcript", "extraction_error",
                              result.errors[i], "Transcript limited",
                              result.suggested_fixes)],
                      result.suggested_fixes, TimeMs))
              EXCEPT !.trace = <<t>>]

fetch_transcript(co, config) ==
    {TranscriptStage(co, t) : t \in transcribe_run(co.source["url"], config)}

----------------------------------------------------------------------------
(* stages/analyze_structure.py, stages/analyze_semantics.py                *)

\* len() of a transcript text
TextLength(text) ==
    CASE text = "" -> 0
      [] text = "TEXT" -> 4
      [] text = "LONGTEXT" -> 50000

STRUCTURE_MAX_CHARS == 40000
SEMANTICS_MAX_CHARS == 20000

\* content_object["diagnostics"].setdefault("warnings", []).append(text)
AppendDiagnosticsWarning(co, text) ==
    [co EXCEPT !.diagnostics =
        Put(@, "warnings", Append(Get(@, "warnings", <<>>), text))]

\* STRUCTURE_PROMPT.format(...) and SEMANTICS_PROMPT.format(...): both
\* templates spell their JSON schema with bare braces, which str.format
\* reads as a replacement field that no argument names: the exception raised
PROMPT_format == "KeyError"

\* raw.get("transcript_text", "") or ""
TranscriptOf(co) ==
    LET t == Get(co.raw, "transcript_text", "")
    IN  IF t = None THEN "" ELSE t

EmptyStructure ==
    [sections |-> "[]", entities |-> "[]", references |-> "[]",
     detected_steps |-> "[]", code_blocks_present |-> "False"]

EmptySemantics ==
    [primary_topics |-> "[]", secondary_topics |-> "[]", content_type |-> None,
     difficulty_level |-> None, knowledge_type |-> None]

analyze_structure_fails_without_transcript(co, config) ==
    LET transcript == TranscriptOf(co)
    IN  IF transcript = ""
        THEN {StageReturns(co,
                 StageResult("analyze_structure", FALSE, <<>>,
                     <<"No transcript available for structural analysis">>,
                     <<StageFailure("analyze_structure", "structure_error",
                                    "no_transcript", "No structure", <<>>)>>,
                     <<>>, TimeMs))}
        ELSE {StageRaises(
                 IF TextLength(transcript) > STRUCTURE_MAX_CHARS
                 THEN AppendDiagnosticsWarning(co, "Transcript truncated for structural analysis")
                 ELSE co,
                 PROMPT_format)}

analyze_structure(co, config) ==
    LET transcript == TranscriptOf(co)
    IN  IF transcript = ""
        THEN {StageReturns([co EXCEPT !.structure = EmptyStructure],
                 StageResult("analyze_structure", TRUE,
                     <<"No transcript available for structural analysis">>,
                     <<>>, <<>>, <<>>, TimeMs))}
        ELSE {StageRaises(
                 IF TextLength(transcript) > STRUCTURE_MAX_CHARS
                 THEN AppendDiagnosticsWarning(co, "Transcript truncated for structural analysis")
                 ELSE co,
                 PROMPT_format)}

analyze_semantics(co, config) ==
    LET title == Get(co.source, "title", "")
        description == Get(co.raw, "description_text", "")
        transcript == TranscriptOf(co)
    IN  IF transcript = "" /\ (title = None \/ title = "")
        THEN {StageReturns([co EXCEPT !.semantics = EmptySemantics],
                 StageResult("analyze_semantics", TRUE,
                     <<"Insufficient content for semantic analysis">>,
                     <<>>, <<>>, <<>>, TimeMs))}
        ELSE {StageRaises(
                 IF TextLength(transcript) > SEMANTICS_MAX_CHARS
                 THEN AppendDiagnosticsWarning(co, "Transcript truncated for semantic analysis")
                 ELSE co,
                 \* description[:2000] on None raises before format is called
                 IF description = None THEN "TypeError" ELSE PROMPT_format)}

----------------------------------------------------------------------------
(* runner.py                                                               *)

\* the modules of the stage functions in STAGES, in order
STAGES == <<"validate_input", "fetch_metadata", "fetch_transcript",
            "analyze_structure", "analyze_semantics">>

CallStage_transcript_reports_other_name(stage_func, co, config) ==
    CASE stage_func = "validate_input" -> validate_input(co, config)
      [] stage_func = "fetch_metadata" -> fetch_metadata(co, config)
      [] stage_func = "fetch_transcript" ->
            {[out EXCEPT !.result = <<[@[1] EXCEPT !.stage_name = "fetch_metadata"]>>] :
                out \in fetch_transcript(co, config)}
      [] stage_func = "analyze_structure" -> analyze_structure(co, config)
      [] stage_func = "analyze_semantics" -> analyze_semantics(co, config)

\* stage_func(content_object, run_id, config or {})
CallStage(stage_func, co, config) ==
    CASE stage_func = "validate_input" -> validate_input(co, config)
      [] stage_func = "fetch_metadata" -> fetch_metadata(co, config)
      [] stage_func = "fetch_transcript" -> fetch_transcript(co, config)
      [] stage_func = "analyze_structure" -> analyze_structure(co, config)
      [] stage_func = "analyze_semantics" -> analyze_semantics(co, config)

\* a stage function that only obeys the Stage signature of stages/base.py:
\* it returns the artifact with a StageResult of any stage_name, or raises
StubStage(stage_func, co, config) ==
    {StageReturns(co, StageResult(n, ok, <<>>, <<>>, <<>>, <<>>, None)) :
        n \in Range(STAGES), ok \in BOOLEAN}
    \cup {StageRaises(co, "RuntimeError")}

SyntheticResult_cause_from_exception(stage_name, exc) ==
    StageResult(stage_name, FALSE, <<>>, <<"Unhandled exception: <exception>">>,
        <<StageFailure(stage_name, "source_error", exc, "stage aborted",
                       <<"Review logs", "Report bug with traceback">>)>>,
        <<>>, None)

SyntheticResult_reports_success(stage_name, exc) ==
    StageResult(stage_name, TRUE, <<>>, <<"Unhandled exception: <exception>">>,
        <<StageFailure(stage_name, "source_error", "unexpected_exception",
                       "stage aborted",
                       <<"Review logs", "Report bug with traceback">>)>>,
        <<>>, None)

SyntheticResult_without_failure(stage_name, exc) ==
    StageResult(stage_name, FALSE, <<>>, <<"Unhandled exception: <exception>">>,
        <<>>, <<>>, None)

\* the stage_result the except branch of the loop builds
SyntheticResult(stage_name, exc) ==
    StageResult(stage_name, FALSE, <<>>, <<"Unhandled exception: <exception>">>,
        <<StageFailure(stage_name, "source_error", "unexpected_exception",
                       "stage aborted",
                       <<"Review logs", "Report bug with traceback">>)>>,
        <<>>, None)

except_Exception_catches_all(exc) == TRUE

\* `except Exception as exc` (line 102) on an exception of class exc:
\* KeyboardInterrupt derives from BaseException, not from Exception
except_Exception(exc) == exc # "KeyboardInterrupt"

TryStage_without_except(self, stage_name, out) ==
    LET first == IF out.raised THEN [raised |-> TRUE, self |-> self]
                 ELSE add_stage_result(self, out.result[1])
    IN  [self |-> first.self, rejected |-> first.raised /\ ~out.raised,
         propagated |-> first.raised]

\* the try/except of the loop body on one outcome of the stage call: the
\* collector afterwards, whether the returned result was rejected inside the
\* try, and whether an exception left the except branch (propagated)
TryStage(self, stage_name, out) ==
    LET first == IF out.raised THEN [raised |-> TRUE, self |-> self]
                 ELSE add_stage_result(self, out.result[1])
        second == add_stage_result(first.self, SyntheticResult(stage_name, out.exc))
    IN  IF out.raised /\ ~except_Exception(out.exc)
        THEN [self |-> self, rejected |-> FALSE, propagated |-> TRUE]
        ELSE IF ~first.raised
        THEN [self |-> first.self, rejected |-> FALSE, propagated |-> FALSE]
        ELSE [self |-> second.self, rejected |-> ~out.raised,
              propagated |-> second.raised]

\* log_event(logger, ..., stage_name=stage_name, event_type="start"), lines
\* 81-87, on the logger bound to run_id; results is the number of results
\* the collector holds at the moment of the call
StartEvent(run_id, stage_name, self) ==
    [run_id |-> run_id, stage_name |-> stage_name, event_type |-> "start",
     results |-> Len(self.stage_status)]

CompletionEvent_always_success(run_id, stage_name, out, t) ==
    [run_id |-> run_id, stage_name |-> stage_name, event_type |-> "success",
     results |-> Len(t.self.stage_status)]

\* the log_event that ends the loop body: lines 94-101 after the returned
\* result was added, lines 120-127 after the synthetic result was added
CompletionEvent(run_id, stage_name, out, t) ==
    [run_id |-> run_id, stage_name |-> stage_name,
     event_type |-> IF ~out.raised /\ ~t.rejected /\ out.result[1].success
                    THEN "success" ELSE "failure",
     results |-> Len(t.self.stage_status)]

NextStage_breaks_on_failure(i, stage_result_ok) ==
    IF stage_result_ok THEN i + 1 ELSE Len(STAGES) + 1

\* for stage_func in STAGES: the position after the stage at index i
NextStage(i, stage_result_ok) == i + 1

\* the fields the Raw, Structure and Semantics models declare
RawFields == {"transcript_text", "transcript_language", "transcript_confidence",
              "chapters", "description_text", "tags"}
StructureFields == {"sections", "entities", "references", "detected_steps",
                    "code_blocks_present"}
SemanticsFields == {"primary_topics", "secondary_topics", "content_type",
                    "difficulty_level", "knowledge_type"}

\* model_validate(...).model_dump(exclude_none=True) on one section: keys
\* the model does not declare are ignored, None-valued fields are left out
DumpSection(d, fields) ==
    ExcludeNone([k \in DOMAIN d \cap fields |-> d[k]])

\* ContentObject.model_validate(content_object) raises: duration_seconds is
\* declared int and the value is fractional
ValidationFails(co) == Get(co.source, "duration_seconds", None) = "12.5"

ValidatedDump_excludes_empty(co) ==
    LET d == [identity |-> co.identity,
              source |-> ExcludeNone(co.source),
              raw |-> DumpSection(co.raw, RawFields),
              structure |-> DumpSection(co.structure, StructureFields),
              semantics |-> DumpSection(co.semantics, SemanticsFields),
              diagnostics |-> co.diagnostics]
    IN  [k \in {j \in DOMAIN d : DOMAIN d[j] # {}} |-> d[k]]

ValidatedDump_fresh_identity(co) ==
    [identity |-> Identity("uuid-1", "uuid-1"),
     source |-> ExcludeNone(co.source),
     raw |-> DumpSection(co.raw, RawFields),
     structure |-> DumpSection(co.structure, StructureFields),
     semantics |-> DumpSection(co.semantics, SemanticsFields),
     diagnostics |-> co.diagnostics]

\* validated.model_dump(by_alias=False, exclude_none=True)
ValidatedDump(co) ==
    [identity |-> co.identity,
     source |-> ExcludeNone(co.source),
     raw |-> DumpSection(co.raw, RawFields),
     structure |-> DumpSection(co.structure, StructureFields),
     semantics |-> DumpSection(co.semantics, SemanticsFields),
     diagnostics |-> co.diagnostics]

\* the content_object dict run_ingestion starts from
NewContentObject(url, content_id, workflow_run_id) ==
    [identity |-> Identity(content_id, workflow_run_id),
     source |-> Source(url),
     raw |-> EmptyDict, structure |-> EmptyDict, semantics |-> EmptyDict,
     diagnostics |-> EmptyDict]

InitCollectorIdle ==
    /\ collector = NewCollector
    /\ call = <<>>
    /\ diag = <<>>
    /\ fatal = <<>>
    /\ accepted = <<>>
    /\ adds = 0

InitPending ==
    /\ pc = "Pending"
    /\ idx = 0
    /\ run = <<>>
    /\ content_object = <<>>
    /\ invoked = <<>>
    /\ raisedIn = {}
    /\ dupRejected = {}
    /\ interrupted = {}
    /\ events = <<>>
    /\ returned = <<>>

Init == InitCollectorIdle /\ InitPending

\* run_ingestion(url, config) up to the loop: lines 55-77
StartWith(urls, uuids) ==
    /\ pc = "Pending"
    /\ \E url \in urls, dir \in {None, "/audio"}, tr \in BOOLEAN,
          run_id \in uuids, content_id \in uuids, workflow_run_id \in uuids :
          /\ run' = [url |-> url, run_id |-> run_id,
                     config |-> [download_audio_dir |-> dir, transcribe |-> tr]]
          /\ content_object' = NewContentObject(url, content_id, workflow_run_id)
    /\ collector' = NewCollector
    /\ pc' = "Running"
    /\ idx' = 1
    /\ UNCHANGED <<call, diag, fatal, accepted, adds, invoked, raisedIn,
                   dupRejected, interrupted, events, returned>>

Start == StartWith(URLS, UUIDS)

\* one iteration of the stage loop, lines 80-128, for the stage outcomes
\* outs: the stage call, the try/except around it and the collector update
LoopBody(outs) ==
    /\ pc = "Running"
    /\ \E out \in outs :
          LET stage_name == STAGES[idx]
              t == TryStage(collector, stage_name, out)
          IN  /\ invoked' = Append(invoked, stage_name)
              /\ raisedIn' = IF out.raised THEN raisedIn \cup {stage_name} ELSE raisedIn
              /\ dupRejected' = IF t.rejected THEN dupRejected \cup {stage_name}
                                ELSE dupRejected
              /\ interrupted' = IF out.raised /\ out.exc = "KeyboardInterrupt"
                                THEN interrupted \cup {stage_name}
                                ELSE interrupted
              /\ events' = IF t.propagated
                           THEN Append(events, StartEvent(run.run_id, stage_name, collector))
                           ELSE events \o <<StartEvent(run.run_id, stage_name, collector),
                                            CompletionEvent(run.run_id, stage_name, out, t)>>
              /\ content_object' = out.co
              /\ call' = IF out.trace # <<>> THEN out.trace ELSE call
              /\ collector' = t.self
              /\ idx' = IF t.propagated THEN idx
                        ELSE NextStage(idx, out.result # <<>> /\ out.result[1].success)
              /\ pc' = IF t.propagated THEN "Raised"
                       ELSE IF idx' > Len(STAGES) THEN "Finalizing"
                       ELSE "Running"
    /\ UNCHANGED <<diag, fatal, accepted, adds, run, returned>>

RunStage == LoopBody(CallStage(STAGES[idx], content_object, run.config))

Finalize_validation_is_fatal ==
    /\ pc = "Finalizing"
    /\ \E b \in build_diagnostics(collector) :
          LET co == [content_object EXCEPT !.diagnostics = b.ret]
          IN  /\ collector' = b.self
              /\ content_object' = IF ValidationFails(co) THEN co ELSE ValidatedDump(co)
              /\ returned' = IF ValidationFails(co) THEN returned
                             ELSE <<ValidatedDump(co)>>
              /\ pc' = IF ValidationFails(co) THEN "Raised" ELSE "Done"
    /\ UNCHANGED <<call, diag, fatal, accepted, adds, idx, run, invoked,
                   raisedIn, dupRejected, interrupted, events>>

\* lines 130-148: diagnostics assembled, best-effort validation, return
Finalize ==
    /\ pc = "Finalizing"
    /\ \E b \in build_diagnostics(collector) :
          LET co == [content_object EXCEPT !.diagnostics = b.ret]
              result == IF ValidationFails(co) THEN co ELSE ValidatedDump(co)
          IN  /\ collector' = b.self
              /\ content_object' = result
              /\ returned' = <<result>>
    /\ pc' = "Done"
    /\ UNCHANGED <<call, diag, fatal, accepted, adds, idx, run, invoked,
                   raisedIn, dupRejected, interrupted, events>>

Next == Start \/ RunStage \/ Finalize

Spec == Init /\ [][Next]_vars

\* run_ingestion is one sequential function: whenever a step is possible the
\* interpreter takes it
FairSpec == Spec /\ WF_vars(Next)

\* KeyboardInterrupt is delivered while the stage at idx executes: the stage
\* call raises it from any point of its body, with the artifact as it was
\* before the call or as any of the stage's outcomes left it
InterruptedCalls(stage_func, co, config) ==
    {StageRaises(c, "KeyboardInterrupt") :
        c \in {co} \cup {out.co : out \in CallStage(stage_func, co, config)}}

InterruptStage == LoopBody(InterruptedCalls(STAGES[idx], content_object, run.config))

NextInterrupt == Start \/ RunStage \/ InterruptStage \/ Finalize

\* run_ingestion in a process that the user may interrupt (cli/youtube.py:82)
SpecInterrupt == Init /\ [][NextInterrupt]_vars

\* the orchestrator over stage functions that only obey the Stage signature
StartStub == StartWith({"https://www.youtube.com/watch?v=ABC123"}, {"uuid-1"})

RunStubStage == LoopBody(StubStage(STAGES[idx], content_object, run.config))

NextStub == StartStub \/ RunStubStage \/ Finalize

SpecStub == Init /\ [][NextStub]_vars

----------------------------------------------------------------------------
(* Claims about the collector, checked under SpecCollector                 *)

\* C5: add_stage_result called with a stage_name the collector already
\* stores raises the duplicate-key error and leaves stage_status, the global
\* warnings, errors and suggested fixes exactly as they were before the call.
C5_DuplicateRejectedUnchanged ==
    [][AddStageResult =>
          (call'[1].name \in StoredNames(collector)
              => call'[1].raised /\ collector' = collector)]_vars

\* C5 witness: a call has been rejected on a collector that holds a result
\* with a suggested fix
C5_Witness ==
    /\ call # <<>>
    /\ call[1].op = "add_stage_result"
    /\ call[1].raised
    /\ collector.global_suggested_fixes # <<>>

\* C7: the suggested_fixes of every value build_diagnostics returns has no
\* duplicate entry.
C7_NoDuplicateFixes ==
    \A i \in DOMAIN diag : NoDuplicates(diag[i].suggested_fixes)

\* C7 witness: build_diagnostics has returned while the collector holds the
\* same fix text more than once
C7_Witness ==
    /\ diag # <<>>
    /\ ~NoDuplicates(collector.global_suggested_fixes)

\* two diagnostics values are equal, suggested_fixes compared as a set
SameDiagnostics(a, b) ==
    /\ a.stage_status = b.stage_status
    /\ a.warnings = b.warnings
    /\ a.errors = b.errors
    /\ Range(a.suggested_fixes) = Range(b.suggested_fixes)

\* C8: two build_diagnostics calls with no add_stage_result between them
\* return equal values (suggested_fixes as a set), and neither
\* build_diagnostics nor has_fatal_failure changes the collector.
C8_BuildIdempotentPure ==
    /\ [](Len(diag) = 2 => SameDiagnostics(diag[1], diag[2]))
    /\ [][(BuildDiagnostics \/ HasFatalFailure) => collector' = collector]_vars

\* C8 witness: build_diagnostics was called twice in a row on a collector
\* holding two results and a repeated fix, has_fatal_failure in between
C8_Witness ==
    /\ Len(diag) = 2
    /\ fatal # <<>>
    /\ Len(collector.stage_status) = 2
    /\ ~NoDuplicates(collector.global_suggested_fixes)

\* C9: has_fatal_failure() returns true exactly when one of the accepted
\* results has success=false (false on the empty collector).
C9_FatalIffSomeFailed ==
    fatal # <<>> =>
        (fatal[1] <=> \E i \in DOMAIN accepted : ~accepted[i].success)

\* C9 witness: has_fatal_failure returned true with a successful and a
\* failed result stored
C9_Witness ==
    /\ fatal = <<TRUE>>
    /\ \E i, j \in DOMAIN accepted : accepted[i].success /\ ~accepted[j].success

\* C10: the warnings (errors) of the diagnostics are the concatenation of the
\* accepted results' warnings (errors) in submission order.
C10_WarningsErrorsConcatenated ==
    \A i \in DOMAIN diag :
        /\ diag[i].warnings = Concat([k \in DOMAIN accepted |-> accepted[k].warnings])
        /\ diag[i].errors = Concat([k \in DOMAIN accepted |-> accepted[k].errors])

\* C10 witness: diagnostics were built from two accepted results that both
\* carry a warning, with different texts
C10_Witness ==
    /\ diag # <<>>
    /\ Len(accepted) = 2
    /\ Len(diag[1].warnings) = 2
    /\ diag[1].warnings[1] # diag[1].warnings[2]

------------------------------------------------------------\* the fixes one result contributes: its stage-level list, then the list of
\* each of its failures
FixesOf(r) ==
    r.suggested_fixes \o Concat([i \in DOMAIN r.failures |-> r.failures[i].suggested_fixes])

\* C11: the collector accumulates the stage-level and the nested per-failure
\* suggested fixes of every stored result with their multiplicity, and the
\* set of fixes build_diagnostics returns is exactly the union of those
\* fixes: none lost, none invented.
C11_FixesAreUnionOfBothLevels ==
    /\ collector.global_suggested_fixes =
           Concat([i \in DOMAIN accepted |-> FixesOf(accepted[i])])
    /\ \A i \in DOMAIN diag :
           Range(diag[i].suggested_fixes) =
               UNION {Range(accepted[k].suggested_fixes) : k \in DOMAIN accepted}
               \cup UNION {UNION {Range(accepted[k].failures[j].suggested_fixes) :
                                     j \in DOMAIN accepted[k].failures} :
                              k \in DOMAIN accepted}

\* C11 witness: build_diagnostics has returned for a collector that stores
\* one result with a stage-level fix and one with a fix nested in a failure
C11_Witness ==
    /\ diag # <<>>
    /\ \E k \in DOMAIN accepted : accepted[k].suggested_fixes # <<>>
    /\ \E k \in DOMAIN accepted : \E j \in DOMAIN accepted[k].failures :
           accepted[k].failures[j].suggested_fixes # <<>>

----------------
(* Claims about run_ingestion                                              *)

\* the entry of a stage_status dict for a stage name
Entry(stage_status, name) ==
    stage_status[CHOOSE i \in DOMAIN stage_status : stage_status[i].stage_name = name]

HasEntry(stage_status, name) ==
    \E i \in DOMAIN stage_status : stage_status[i].stage_name = name

(* Claims about the transcription subsystem, checked under Spec: call holds *)
(* the execution of transcribe made by the fetch_transcript stage           *)

\* get_captions returned a result that reports failure
CaptionsFailed(t) == t.captions # <<>> /\ ~t.captions[1].success

\* C12: when the caption strategy succeeds, transcribe returns that result
\* at once, with success=true and method "captions"; transcribe_audio is not
\* called (no audio acquisition, no model call) and the result has no audio
\* path.
C12_CaptionsSuccessSkipsAudio ==
    \A t \in Range(call) :
        (t.captions # <<>> /\ t.captions[1].success) =>
            /\ t.ret = t.captions
            /\ t.ret[1].success
            /\ t.ret[1].method = "captions"
            /\ t.audio = <<>>
            /\ t.ret[1].audio_path = None

\* C12 witness: captions succeeded in a run configured to keep the audio
\* and to transcribe
C12_Witness ==
    /\ call # <<>>
    /\ call[1].captions # <<>> /\ call[1].captions[1].success
    /\ call[1].config.download_audio_dir # None
    /\ call[1].config.transcribe

\* C13: when captions fail, for whichever cause, and the audio acquisition
\* and the model succeed, transcribe returns success=true with method
\* "whisper" and its warnings include a warning of the failed caption attempt.
C13_FallbackSuccessCarriesCaptionWarning ==
    \A t \in Range(call) :
        (CaptionsFailed(t) /\ t.audio # <<>> /\ t.audio[1].model = "text") =>
            /\ t.ret[1].success
            /\ t.ret[1].method = "whisper"
            /\ \E w \in Range(t.captions[1].warnings) : w \in Range(t.ret[1].warnings)

\* C14: when captions fail and the model returns an empty or whitespace-only
\* transcript, transcribe returns success=false although the audio was
\* acquired, and the fetch_transcript stage reports success=false and writes
\* no transcript into raw.
C14_EmptyTranscriptIsFailure ==
    \A t \in Range(call) :
        (CaptionsFailed(t) /\ t.audio # <<>> /\ t.audio[1].model = "empty") =>
            /\ t.audio[1].acquired
            /\ ~t.ret[1].success
            /\ HasEntry(collector.stage_status, "fetch_transcript")
            /\ ~Entry(collector.stage_status, "fetch_transcript").success
            /\ "transcript_text" \notin DOMAIN content_object.raw

\* C14 witness: the run has returned after the model gave an empty transcript
\* for a reference whose metadata stage had written into raw
C14_Witness ==
    /\ pc = "Done"
    /\ call # <<>>
    /\ CaptionsFailed(call[1])
    /\ call[1].audio # <<>> /\ call[1].audio[1].model = "empty"
    /\ "description_text" \in DOMAIN content_object.raw

\* C15: whenever the audio fallback runs, whether it succeeds or fails, the
\* result transcribe returns contains every warning, error and suggested fix
\* of the failed caption attempt and every one of the audio strategy's own.
C15_FallbackAbsorbsCaptionEntries ==
    \A t \in Range(call) :
        t.audio # <<>> =>
            /\ Range(t.captions[1].warnings) \cup Range(t.audio[1].ret.warnings)
                   \subseteq Range(t.ret[1].warnings)
            /\ Range(t.captions[1].errors) \cup Range(t.audio[1].ret.errors)
                   \subseteq Range(t.ret[1].errors)
            /\ Range(t.captions[1].suggested_fixes)
                   \cup Range(t.audio[1].ret.suggested_fixes)
                   \subseteq Range(t.ret[1].suggested_fixes)

\* C15 witness: the fallback failed after a caption attempt that had produced
\* an error and a fix
C15_Witness ==
    /\ call # <<>>
    /\ call[1].audio # <<>>
    /\ ~call[1].audio[1].ret.success
    /\ call[1].captions[1].errors # <<>>
    /\ call[1].captions[1].suggested_fixes # <<>>

\* C16: every result transcribe returns, on every path, has method
\* "captions" or "whisper".
C16_MethodAlwaysPopulated ==
    \A t \in Range(call) :
        t.ret # <<>> => t.ret[1].method \in {"captions", "whisper"}

\* C17: when config.transcribe is false the model is never invoked and the
\* result transcribe returns carries an empty transcript.
C17_NoTranscribeMeansAudioOnly ==
    \A t \in Range(call) :
        ~t.config.transcribe =>
            /\ t.audio # <<>> => t.audio[1].model = "not_called"
            /\ t.ret # <<>> => t.ret[1].transcript_text = ""

\* C18: when download_audio_dir is unset, the temporary directory the audio
\* strategy created is removed on every exit path of transcribe_audio by the
\* time the call returns.
C18_TemporaryAudioReleased ==
    \A t \in Range(call) :
        (t.audio # <<>> /\ t.config.download_audio_dir = None
            /\ t.audio[1].tmp_created) => t.audio[1].tmp_released

InvalidReference(url) == Strip(url) = "" \/ YOUTUBE_REGEX_search(Strip(url)) = <<>>

IdentityAndUrlPresent(co) ==
    /\ {"identity", "source"} \subseteq DOMAIN co
    /\ {"content_id", "workflow_run_id", "created_at", "workflow_version"}
           \subseteq DOMAIN co.identity
    /\ \A k \in DOMAIN co.identity : co.identity[k] # None
    /\ "url" \in DOMAIN co.source
    /\ co.source["url"] # None

\* C1: from the moment the artifact is created identity and source.url are
\* present in it, no stage and no finalization step clears them, and they
\* are present in the artifact every returning run returns.
C1_IdentityAndUrlAlwaysPresent ==
    /\ pc \in {"Running", "Finalizing", "Done"} => IdentityAndUrlPresent(content_object)
    /\ pc = "Done" => returned # <<>> /\ IdentityAndUrlPresent(returned[1])

\* C1 witness: a run has returned in which one stage raised and two other
\* stages reported failure
C1_Witness ==
    /\ pc = "Done"
    /\ returned # <<>>
    /\ raisedIn # {}
    /\ Cardinality({i \in DOMAIN collector.stage_status :
                       ~collector.stage_status[i].success}) >= 3

\* the steps the state machine of the orchestrator allows
OrchestratorStep ==
    \/ pc = "Pending" /\ pc' = "Running" /\ idx' = 1
    \/ pc = "Running" /\ idx < Len(STAGES) /\ pc' = "Running" /\ idx' = idx + 1
    \/ pc = "Running" /\ idx = Len(STAGES) /\ pc' = "Finalizing"
    \/ pc = "Finalizing" /\ pc' = "Done"

\* C2: when every stage call returns or raises, run_ingestion goes
\* Pending -> Running(stage 1..5) -> Finalizing -> Done and always reaches
\* Done; there is no terminal error state, whatever stages failed.
C2_AlwaysReachesDone ==
    /\ <>(pc = "Done")
    /\ [][OrchestratorStep]_vars

\* C2 witness: Done is reached by a run in which a stage raised and the
\* first stage failed
C2_Witness ==
    /\ pc = "Done"
    /\ raisedIn # {}
    /\ ~Entry(collector.stage_status, "validate_input").success

\* a stage_status entry is the synthetic result of the failure boundary
IsSynthetic(r) ==
    /\ ~r.success
    /\ Len(r.failures) = 1
    /\ r.failures[1].cause = "unexpected_exception"
    /\ r.failures[1].type = "source_error"
    /\ r.failures[1].suggested_fixes = <<"Review logs", "Report bug with traceback">>

\* C3: when a stage raises, the stages after it are still called, the run
\* still returns an artifact, and stage_status holds for the raising stage a
\* result with success=false and exactly one StageFailure of cause
\* "unexpected_exception", type source_error and the two fixed fixes.
C3_RaisingStageContained ==
    /\ [](\A s \in raisedIn :
             /\ HasEntry(collector.stage_status, s)
             /\ IsSynthetic(Entry(collector.stage_status, s))
             /\ pc = "Done" =>
                   /\ invoked = STAGES
                   /\ HasEntry(returned[1].diagnostics.stage_status, s)
                   /\ IsSynthetic(Entry(returned[1].diagnostics.stage_status, s)))
    /\ (raisedIn # {}) ~> (pc = "Done" /\ invoked = STAGES /\ returned # <<>>)

\* C3 witness: analyze_structure raised, analyze_semantics ran after it and
\* the run returned
C3_Witness ==
    /\ pc = "Done"
    /\ "analyze_structure" \in raisedIn
    /\ invoked[Len(invoked)] = "analyze_semantics"
    /\ returned # <<>>

----------------------------------------------------------------------------
(* Claims about the run as a whole and the stage contract                  *)

TopLevelKeys == {"identity", "source", "raw", "structure", "semantics",
                 "diagnostics"}

\* the keys the sections of an artifact are seen to carry
FieldNames ==
    {"content_id", "workflow_run_id", "created_at", "workflow_version",
     "source_type", "url", "video_id", "title", "channel_name",
     "duration_seconds", "published_at", "language", "captions_available",
     "audio_path", "stage_status", "warnings", "errors", "suggested_fixes"}
    \cup RawFields \cup StructureFields \cup SemanticsFields

\* v is a mapping from field names to values
IsObject(v) == DOMAIN v \subseteq FieldNames

\* some stage of the run returned success=False or raised
SomeStageFailed ==
    \E i \in DOMAIN collector.stage_status : ~collector.stage_status[i].success

\* C22: whatever run_ingestion returns has exactly the six top-level keys,
\* and the value under each of them is an object, whichever stages failed
\* or raised and whether or not the final validation passed.
C22_SixTopLevelObjects ==
    \A i \in DOMAIN returned :
        /\ DOMAIN returned[i] = TopLevelKeys
        /\ \A k \in TopLevelKeys : IsObject(returned[i][k])

C22_Witness ==
    /\ returned # <<>>
    /\ ~ValidationFails(returned[1])
    /\ raisedIn # {}
    /\ SomeStageFailed
    /\ returned[1].structure = EmptyDict

\* the sections the stages write
StageSections == {"identity", "source", "raw", "structure", "semantics"}

\* C23: when the final validation fails run_ingestion still returns, and
\* what it returns is the artifact as the stages left it, section by
\* section, with the diagnostics the collector assembled.
C23_ValidationFailureKeepsEverything ==
    [][(pc = "Finalizing" /\ pc' # "Finalizing" /\ ValidationFails(content_object))
        => /\ pc' = "Done"
           /\ returned' # <<>>
           /\ \A k \in StageSections : returned'[1][k] = content_object[k]
           /\ returned'[1].diagnostics
                \in {b.ret : b \in build_diagnostics(collector)}]_vars

C23_Witness ==
    /\ pc = "Done"
    /\ returned # <<>>
    /\ ValidationFails(returned[1])
    /\ "transcript_text" \in DOMAIN returned[1].raw
    /\ returned[1].diagnostics.stage_status # EmptyDict

\* C24: the diagnostics of the returned artifact record every degradation
\* of the run: when the transcript in the artifact is longer than the limit
\* of analyze_structure or of analyze_semantics, the stage's "Transcript
\* truncated" warning is in the returned diagnostics.warnings.
C24_TruncationWarningsReported ==
    \A i \in DOMAIN returned :
        LET warnings == Range(returned[i].diagnostics.warnings)
            length == TextLength(TranscriptOf(returned[i]))
        IN  /\ length > STRUCTURE_MAX_CHARS
                => "Transcript truncated for structural analysis" \in warnings
            /\ length > SEMANTICS_MAX_CHARS
                => "Transcript truncated for semantic analysis" \in warnings

C26_NoStageRaises == raisedIn = {}

\* C28: every StageResult a stage function returned (every stored result
\* that is not the orchestrator's synthetic one) carries the
\* execution_time_ms read from the stage's timer.
C28_EveryResultIsTimed ==
    \A i \in DOMAIN collector.stage_status :
        ~IsSynthetic(collector.stage_status[i])
            => collector.stage_status[i].execution_time_ms # None

\* the sections the stages fill with data
DataSections == {"source", "raw", "structure", "semantics"}

\* the fields of a section that hold a value
Populated(d) == {k \in DOMAIN d : d[k] # None}

\* every populated field of section d still holds the same value in e
Kept(d, e) == \A k \in Populated(d) : k \in DOMAIN e /\ e[k] = d[k]

\* C27: a stage call that fails (its stored result has success=false, the
\* synthetic result of a raising stage included) leaves every populated
\* source, raw, structure and semantics field with the value it had before
\* the call.
C27_FailingStageKeepsEarlierValues ==
    [][(pc = "Running" /\ invoked' # invoked
            /\ ~collector'.stage_status[Len(collector'.stage_status)].success)
        => \A sec \in DataSections : Kept(content_object[sec], content_object'[sec])]_vars

C27_Witness ==
    /\ pc = "Running"
    /\ Len(collector.stage_status) = 3
    /\ ~collector.stage_status[3].success
    /\ Get(content_object.raw, "description_text", None) # None
    /\ Get(content_object.source, "title", None) # None

\* C29: once the artifact exists no step changes its identity section, and
\* the identity of the artifact run_ingestion returns is the one created at
\* initialization.
C29_IdentityImmutable ==
    [][pc # "Pending"
        => /\ content_object'.identity = content_object.identity
           /\ \A i \in DOMAIN returned' :
                 returned'[i].identity = content_object.identity]_vars

C29_Witness ==
    /\ pc = "Done"
    /\ returned # <<>>
    /\ returned[1].identity = Identity("uuid-2", "uuid-1")
    /\ ~ValidationFails(returned[1])
    /\ raisedIn # {}

\* C30: no step of the run changes or removes a source field that holds a
\* value, and source.url of the returned artifact is the url passed to
\* run_ingestion.
C30_SourceAppendOnly ==
    [][pc # "Pending"
        => /\ Kept(content_object.source, content_object'.source)
           /\ \A i \in DOMAIN returned' : returned'[i].source["url"] = run.url]_vars

----------------------------------------------------------------------------
(* Claims about events, fallback order and the data the stages exchange    *)

C32_StrictTwoStepFallback ==
    \A t \in Range(call) :
        /\ Len(t.captions) <= 1
        /\ Len(t.audio) <= 1
        /\ t.audio # <<>> => CaptionsFailed(t)
        /\ t.captions = <<>> => (t.audio = <<>> /\ t.ret = <<>>)
        /\ \A i \in DOMAIN t.audio :
              t.audio[i].model # "not_called" => t.audio[i].acquired

C32_Witness ==
    /\ call # <<>>
    /\ CaptionsFailed(call[1])
    /\ call[1].audio # <<>>
    /\ ~call[1].audio[1].ret.success
    /\ call[1].audio[1].model = "raised"

\* the execution t of transcribe reached an external collaborator: the
\* caption service (get_transcript is called once the id was extracted) or
\* the audio download (called unless the id extraction for save_dir raised)
ContactedCollaborator(t) ==
    \/ t.captions # <<>> /\ ExtractVideoId(t.url) # <<>>
    \/ t.audio # <<>>
          /\ (t.config.download_audio_dir = None \/ ExtractVideoId(t.url) # <<>>)

\* validate_input failed with cause invalid_youtube_url
RejectedAsInvalidUrl ==
    /\ Len(collector.stage_status) >= 1
    /\ ~collector.stage_status[1].success
    /\ Len(collector.stage_status[1].failures) >= 1
    /\ collector.stage_status[1].failures[1].cause = "invalid_youtube_url"

\* C33: when validate_input fails with cause invalid_youtube_url no
\* downstream stage contacts an external collaborator for the reference, and
\* the returned artifact holds no fetched metadata and no transcript.
C33_InvalidUrlIsDiagnosticsOnly ==
    RejectedAsInvalidUrl =>
        /\ \A t \in Range(call) : ~ContactedCollaborator(t)
        /\ \A i \in DOMAIN returned :
              /\ Populated(returned[i].raw) = {}
              /\ Populated(returned[i].source) \subseteq {"source_type", "url"}

\* the stage called last is stage_name and the artifact it was given had
\* no input for it
GracefulCase(stage_name) ==
    /\ pc = "Running"
    /\ invoked' = Append(invoked, stage_name)
    /\ TranscriptOf(content_object) = ""
    /\ stage_name = "analyze_semantics"
          => Get(content_object.source, "title", "") \in {None, ""}

\* the result stored last is a success with exactly one warning, no
\* errors and no failures, returned by the stage itself
GracefulResult(r) ==
    /\ r.success
    /\ Len(r.warnings) = 1
    /\ r.errors = <<>>
    /\ r.failures = <<>>
    /\ r.execution_time_ms # None

\* C34: without input data (analyze_structure: no transcript;
\* analyze_semantics: neither transcript nor title) the stage returns
\* without raising, fills its section with the empty defaults and reports
\* success=true with exactly one warning and no failures.
C34_GracefulEmptyAnalysis ==
    [][/\ GracefulCase("analyze_structure")
          => /\ "analyze_structure" \notin raisedIn'
             /\ content_object'.structure = EmptyStructure
             /\ GracefulResult(collector'.stage_status[Len(collector'.stage_status)])
       /\ GracefulCase("analyze_semantics")
          => /\ "analyze_semantics" \notin raisedIn'
             /\ content_object'.semantics = EmptySemantics
             /\ GracefulResult(collector'.stage_status[Len(collector'.stage_status)])]_vars

C34_Witness ==
    /\ pc = "Finalizing"
    /\ raisedIn = {}
    /\ content_object.structure = EmptyStructure
    /\ content_object.semantics = EmptySemantics
    /\ collector.stage_status[4].success
    /\ collector.stage_status[5].success

\* C35: in every returned artifact each stage_status entry with
\* success=false lists at least one StageFailure, whichever stage failed
\* and on whichever path, the orchestrator's synthetic result included.
C35_FailedEntriesCarryFailure ==
    \A i \in DOMAIN returned :
        \A k \in DOMAIN returned[i].diagnostics.stage_status :
            ~returned[i].diagnostics.stage_status[k].success
                => Len(returned[i].diagnostics.stage_status[k].failures) >= 1

C35_Witness ==
    /\ returned # <<>>
    /\ Len(returned[1].diagnostics.stage_status) = Len(STAGES)
    /\ \A k \in {2, 3, 5} : ~returned[1].diagnostics.stage_status[k].success
    /\ raisedIn = {"analyze_semantics"}
    /\ call # <<>> /\ call[1].audio # <<>>

\* C36: identity.workflow_run_id of the artifact is the run identifier
\* the orchestrator passes to the stages, the collector and the logger, the
\* one every log event of the run carries.
C36_SingleRunIdentifier ==
    pc # "Pending" =>
        /\ content_object.identity.workflow_run_id = run.run_id
        /\ \A i \in DOMAIN events :
              events[i].run_id = content_object.identity.workflow_run_id

\* validate_input accepted the reference of the run
AcceptedByValidateInput ==
    /\ Len(collector.stage_status) >= 1
    /\ collector.stage_status[1].stage_name = "validate_input"
    /\ collector.stage_status[1].success

\* C37: for every URL validate_input accepts, the id extraction of the
\* caption and audio strategies yields source.video_id; it never rejects
\* such a URL.
C37_StrategiesDeriveSameVideoId ==
    \A t \in Range(call) :
        AcceptedByValidateInput =>
            ExtractVideoId(t.url) = <<content_object.source["video_id"]>>

\* C38: when fetch_transcript reports success=true in a run configured with
\* transcribe=true, raw.transcript_text of the artifact is non-empty.
C38_SuccessfulTranscriptIsNonEmpty ==
    \A k \in DOMAIN collector.stage_status :
        (/\ collector.stage_status[k].stage_name = "fetch_transcript"
         /\ collector.stage_status[k].success
         /\ run.config.transcribe)
            => TranscriptOf(content_object) # ""

\* C39: when fetch_transcript succeeded through the audio fallback with
\* download_audio_dir set, the audio path the stage wrote into raw is in the
\* artifact run_ingestion returns, whether the final validation passed or
\* failed.
C39_SavedAudioPathReturned ==
    \A t \in Range(call) :
        (/\ t.ret # <<>>
         /\ t.config.download_audio_dir # None
         /\ t.audio # <<>>)
            => (t.ret[1].success
                    => \A i \in DOMAIN returned :
                          Get(returned[i].raw, "audio_path", None) = t.ret[1].audio_path)

\* C40: after the i-th stage has been processed the collector holds
\* exactly i results, keyed by the names of the first i stages in order; the
\* name the orchestrator derives for a stage (the one on its events) is the
\* stage_name of the stored result, and no returned result was replaced by
\* a synthetic one because of its name; at Done stage_status has exactly the
\* five stage names as keys.
C40_CollectorFollowsTheLoop ==
    /\ Len(collector.stage_status) = Len(invoked)
    /\ \A k \in DOMAIN invoked :
          /\ collector.stage_status[k].stage_name = STAGES[k]
          /\ events[2 * k].stage_name = collector.stage_status[k].stage_name
    /\ dupRejected = {}
    /\ pc = "Done" =>
          /\ Len(returned[1].diagnostics.stage_status) = Len(STAGES)
          /\ \A k \in DOMAIN STAGES :
                returned[1].diagnostics.stage_status[k].stage_name = STAGES[k]

C40_Witness ==
    /\ pc = "Done"
    /\ Len(collector.stage_status) = Len(STAGES)
    /\ raisedIn = {"analyze_structure", "analyze_semantics"}
    /\ ~collector.stage_status[1].success

====
